---- MODULE Spec2Model ----
(***************************************************************************)
(* Model of src/src/app.py: the Terrain audio visualiser.                  *)
(*                                                                         *)
(* Fixed-point units (all quantities are integers):                        *)
(*   grid coordinates x, y ............ tenths        (1.3  -> 13)         *)
(*   noise arguments, scroll offset ... thousandths   (0.059 -> 59)        *)
(*   amplitudes ........................ hundredths   (0.02 -> 2, 1 -> 100)*)
(*   colour channels ................... hundredths   (0.35 -> 35)         *)
(* The noise function is uninterpreted: a vertex height is kept as the     *)
(* pair (amplitude factor, noise query), z = amp * noise2(nx, ny).         *)
(***************************************************************************)
EXTENDS Integers, Sequences, FiniteSets, TLC

\* ---------------------------------------------------------------- bounds
\* Number of update ticks explored.
MaxTicks == 3
\* Number of even-byte patterns the audio device may deliver.
NumPatterns == 3

\* ------------------------------------------------------- Terrain.__init__
\* self.nsteps = 1.3 (tenths)
nsteps == 13
\* np.arange start, -20 (tenths)
GridStart == -200
\* the 20 of the np.arange stop, 20 + self.nsteps (tenths)
GridEnd == 200

\* len(np.arange(start, stop, step)) = ceil((stop - start) / step), step > 0
ArangeLen(start, stop, step) ==
    IF stop <= start THEN 0 ELSE (stop - start + step - 1) \div step

\* np.arange(start, stop, step): start + k*step for k = 0 .. len-1
Arange(start, stop, step) ==
    [k \in 1..ArangeLen(start, stop, step) |-> start + (k - 1) * step]

ypoints == Arange(GridStart, GridEnd + nsteps, nsteps)
xpoints == Arange(GridStart, GridEnd + nsteps, nsteps)
nfaces == Len(ypoints)
CHUNK == Len(xpoints) * Len(ypoints)

\* ------------------------------------------------------ audio device input
\* stream.read(CHUNK) on a paInt16 mono stream returns 2*CHUNK bytes.  The
\* device's buffers are drawn from a family: sample k (0-based) has low byte
\* a*(85+k) mod 256 and high byte b*(200+3k) mod 256.  a = 0, b = 0 is the
\* silent (all-zero) buffer; a = 1 runs through every byte value.
DeviceBuffer(a, b) ==
    [p \in 1..(2 * CHUNK) |->
        IF (p - 1) % 2 = 0
        THEN (a * (85 + (p - 1) \div 2)) % 256
        ELSE (b * (200 + 3 * ((p - 1) \div 2))) % 256]

DeviceBuffers == {DeviceBuffer(a, b) : a \in 0..(NumPatterns - 1), b \in 0..1}

\* waveform=None / waveform=wf_data
NoWaveform == [given |-> FALSE, data |-> <<>>]
Given(buf) == [given |-> TRUE, data |-> buf]

\* ------------------------------------------------------ Terrain.mesh: decode
\* struct.unpack(str(2*CHUNK) + "B", waveform): raises unless the buffer has
\* exactly 2*CHUNK bytes; yields the bytes as integers 0..255.
UnpackOk(buf) == Len(buf) = 2 * CHUNK

\* np.array(values, dtype="b"): conversion to int8, two's complement wrap
Int8(v) == ((v + 128) % 256) - 128

\* seq[::2]: every second element starting at position 0
EverySecond(seq) == [k \in 1..((Len(seq) + 1) \div 2) |-> seq[2 * k - 1]]

\* Int8 is defined above; the sum kept in int8 instead of being widened.
Add128Int8(v) == Int8(v + 128)

\* Conversion to int16, two's complement wrap.
Int16(v) == ((v + 32768) % 65536) - 32768

\* int8 array + 128: 128 does not fit int8, the sum is taken in int16
Add128(v) == Int16(v + 128)

\* np.array(values, dtype="int32") - 128: widening int16 to int32 keeps the
\* value, and an int16 value minus 128 is within int32.
Sub128(v) == v - 128

\* The integer sample value of lines 88-90, before the gain.
DecodeSamples(buf) ==
    LET signed == [p \in 1..Len(buf) |-> Int8(buf[p])]
        low    == EverySecond(signed)
    IN  [k \in 1..Len(low) |-> Sub128(Add128(low[k]))]

\* waveform * 0.02 (hundredths: v * 0.02 = 2v / 100)
Gain(v) == 2 * v

\* A default of one entry per grid row instead of one per cell.
DefaultWaveformPerRow == [k \in 1..Len(xpoints) |-> 100]

\* np.array([1] * 1024) (hundredths: 1 = 100 / 100)
DefaultWaveform == [k \in 1..1024 |-> 100]

\* flat.reshape((rows, cols)) succeeds iff the sizes agree; row-major.
ReshapeOk(flat, rows, cols) == Len(flat) = rows * cols
Reshape(flat, rows, cols) ==
    [r \in 0..(rows - 1) |-> [c \in 0..(cols - 1) |-> flat[r * cols + c + 1]]]

\* Lines 87-95: the flat amplitude sequence of a call.
FlatWaveform(waveform) ==
    IF waveform.given
    THEN LET s == DecodeSamples(waveform.data) IN [k \in 1..Len(s) |-> Gain(s[k])]
    ELSE DefaultWaveform

\* Lines 87-95: does the decode/reshape part raise?
WaveformOk(waveform) ==
    /\ waveform.given => UnpackOk(waveform.data)
    /\ ReshapeOk(FlatWaveform(waveform), Len(xpoints), Len(ypoints))

\* Lines 87-95: the amplitude matrix, indexed [xid][yid] from 0.
AmplitudeMatrix(waveform) ==
    Reshape(FlatWaveform(waveform), Len(xpoints), Len(ypoints))

\* ---------------------------------------------------- Terrain.mesh: vertices
\* The two indices exchanged in the noise query.
NoiseQuerySwapped(xid, yid, x, y, selfOffset, offsetArg) ==
    [nx |-> 200 * yid + selfOffset, ny |-> 200 * xid + selfOffset]

\* Lines 105-107: the arguments noise2 is queried with for cell (xid, yid),
\* whose grid coordinates are (x, y).  The code divides the indices by 5 and
\* adds the instance field self.offset; the parameter offset is not read.
NoiseQuery(xid, yid, x, y, selfOffset, offsetArg) ==
    [nx |-> 200 * xid + selfOffset, ny |-> 200 * yid + selfOffset]

\* Lines 101-108: one vertex [x, y, waveform[xid][yid] * noise2(...)].
Vertex(xid, yid, x, y, matrix, selfOffset, offsetArg) ==
    [x |-> x, y |-> y,
     z |-> [amp |-> matrix[xid][yid],
            at  |-> NoiseQuery(xid, yid, x, y, selfOffset, offsetArg)]]

\* The comprehension with yid outer and xid inner.
VertsYOuter(matrix, selfOffset, offsetArg) ==
    [k \in 1..(Len(xpoints) * Len(ypoints)) |->
        LET yid == (k - 1) \div Len(xpoints)
            xid == (k - 1) % Len(xpoints)
        IN  [x |-> xpoints[xid + 1], y |-> ypoints[yid + 1],
             z |-> [amp |-> matrix[xid][yid],
                    at  |-> [nx |-> 200 * xid + selfOffset,
                             ny |-> 200 * yid + selfOffset]]]]

\* Lines 99-112: the comprehension, xid outer and yid inner.
Verts(matrix, selfOffset, offsetArg) ==
    [k \in 1..(Len(xpoints) * Len(ypoints)) |->
        LET xid == (k - 1) \div Len(ypoints)
            yid == (k - 1) % Len(ypoints)
        IN  Vertex(xid, yid, xpoints[xid + 1], ypoints[yid + 1],
                   matrix, selfOffset, offsetArg)]

\* ------------------------------------------------ Terrain.mesh: triangulation
\* Lines 117-123: the first triangle of a quad.
FaceA(xid, yoffset) ==
    <<xid + yoffset, xid + yoffset + nfaces, xid + yoffset + nfaces + 1>>

\* Lines 124-130: the second triangle of a quad.
FaceB(xid, yoffset) ==
    <<xid + yoffset, xid + yoffset + 1, xid + yoffset + nfaces + 1>>

\* Line 131: the shade of the first triangle.
ColorA == <<10, 30, 0, 35>>

\* One shade for both triangles.
ColorBSame == <<10, 30, 0, 35>>

\* Line 132: the shade of the second triangle.
ColorB == <<9, 30, 0, 35>>

\* Loop ranges that run to the last row / column.
InnerRangeFull == nfaces
OuterRangeFull == nfaces

\* Line 116: range(self.nfaces - 1) of the inner loop.
InnerRange == nfaces - 1
\* Line 114: range(self.nfaces - 1) of the outer loop.
OuterRange == nfaces - 1

\* Line 115: yoffset = yid * self.nfaces
YOffset(yid) == yid * nfaces

\* Lines 114-116: the nested loops run OuterRange * InnerRange iterations;
\* iteration it (from 0) has yid = it div InnerRange, xid = it mod InnerRange.
Iterations == OuterRange * InnerRange
LoopYid(it) == it \div InnerRange
LoopXid(it) == it % InnerRange

\* Lines 117-130: every iteration appends FaceA, then FaceB, to faces.
Faces ==
    [k \in 1..(2 * Iterations) |->
        LET it == (k - 1) \div 2 IN
        IF (k - 1) % 2 = 0
        THEN FaceA(LoopXid(it), YOffset(LoopYid(it)))
        ELSE FaceB(LoopXid(it), YOffset(LoopYid(it)))]

\* Lines 131-132: every iteration appends the two shades to colors.
Colors ==
    [k \in 1..(2 * Iterations) |-> IF (k - 1) % 2 = 0 THEN ColorA ELSE ColorB]

\* Lines 97-98 and 114-135: faces = [], colors = [], then the loops.
Triangulate == [faces |-> Faces, colors |-> Colors]

\* ------------------------------------------------------------ Terrain.mesh
\* The value of a call that raised (struct.error / reshape ValueError).
Raised == [ok |-> FALSE, verts |-> <<>>, faces |-> <<>>, colors |-> <<>>]

\* Lines 75-137: mesh(offset=offsetArg, waveform=waveform) on an instance
\* whose self.offset is selfOffset.
Mesh(selfOffset, offsetArg, waveform) ==
    IF ~WaveformOk(waveform) THEN Raised
    ELSE [ok     |-> TRUE,
          verts  |-> Verts(AmplitudeMatrix(waveform), selfOffset, offsetArg),
          faces  |-> Triangulate.faces,
          colors |-> Triangulate.colors]

\* Lists built by the first call only and kept for the later ones.
BuildsCached(n) == IF n = 0 THEN 1 ELSE n

\* Lines 97-135 run once in every call that reaches them.
BuildsAfterMesh(n) == n + 1

\* ---------------------------------------------------------------- state
VARIABLES
    offset,          \* self.offset (thousandths)
    mountains,       \* the mesh data held by the GLMeshItem
    pc,              \* position of the main thread
    timerActive,     \* the QTimer of animation() is running
    timeoutPending,  \* a timeout of the timer awaits the event loop
    wf_data,         \* local wf_data of update()
    ret,             \* locals verts, faces, colors of update()
    call,            \* the arguments of the mesh call update() made
    bootRet,         \* what the mesh call of __init__ returned
    ticks,           \* completed update() calls
    active,          \* update() calls entered and not yet returned
    triBuilds,       \* executions of lines 97-135
    log              \* the frame driver's events, in order

vars == <<offset, mountains, pc, timerActive, timeoutPending, wf_data, ret,
          call, bootRet, ticks, active, triBuilds, log>>

NoMesh == [set |-> FALSE, verts |-> <<>>, faces |-> <<>>, colors |-> <<>>]
NoCall == [made |-> FALSE, offsetArg |-> 0, waveform |-> NoWaveform]

\* Lines 41-61: the fields are assigned; mesh() has not been called yet.
Init ==
    /\ offset = 0
    /\ mountains = NoMesh
    /\ pc = "init"
    /\ timerActive = FALSE
    /\ timeoutPending = FALSE
    /\ wf_data = <<>>
    /\ ret = Raised
    /\ call = NoCall
    /\ bootRet = Raised
    /\ ticks = 0
    /\ active = 0
    /\ triBuilds = 0
    /\ log = <<>>

\* Line 63: the arguments of self.mesh(): offset=0, waveform=None.
BootCall == [made |-> TRUE, offsetArg |-> 0, waveform |-> NoWaveform]

\* Lines 63-73: verts, faces, colors = self.mesh(); the GLMeshItem is built
\* from faces and verts (no face colours are passed).
InitMesh ==
    /\ pc = "init"
    /\ LET r == Mesh(offset, BootCall.offsetArg, BootCall.waveform) IN
        /\ bootRet' = r
        /\ IF r.ok
           THEN /\ triBuilds' = BuildsAfterMesh(triBuilds)
                /\ mountains' = [set |-> TRUE, verts |-> r.verts,
                                 faces |-> r.faces, colors |-> <<>>]
                /\ pc' = "constructed"
           ELSE /\ UNCHANGED <<triBuilds, mountains>>
                /\ pc' = "crashed"
    /\ UNCHANGED <<offset, timerActive, timeoutPending, wf_data, ret, call,
                   ticks, active, log>>

\* Line 160: the condition under which start() enters the event loop.
StartsEventLoop(interactive, hasPyQt) == (~interactive) \/ (~hasPyQt)

\* Lines 163-173 and 154-161: the timer is created, connected and started,
\* then start() either runs the event loop or returns; when it returns, the
\* local timer goes out of scope with animation().  interactive is
\* sys.flags.interactive == 1, hasPyQt is hasattr(QtCore, "PYQT_VERSION").
Animation ==
    /\ pc = "constructed"
    /\ \E interactive \in BOOLEAN, hasPyQt \in BOOLEAN :
        IF StartsEventLoop(interactive, hasPyQt)
        THEN pc' = "idle" /\ timerActive' = TRUE
        ELSE pc' = "returned" /\ timerActive' = FALSE
    /\ UNCHANGED <<offset, mountains, timeoutPending, wf_data, ret, call,
                   bootRet, ticks, active, triBuilds, log>>

\* Line 172: the running timer's period elapses; at most one timeout of a
\* timer is pending at a time.
TimerTimeout ==
    /\ timerActive
    /\ ~timeoutPending
    /\ timeoutPending' = TRUE
    /\ UNCHANGED <<offset, mountains, pc, timerActive, wf_data, ret, call,
                   bootRet, ticks, active, triBuilds, log>>

\* A dispatch that also re-enters update() while it is blocked in the read.
CanDispatchReentrant(pcv, pending) == pcv \in {"idle", "read"} /\ pending

\* Lines 171-173: the event loop delivers a timeout to update() only when the
\* main thread is back in the loop.
CanDispatch(pcv, pending) == pcv = "idle" /\ pending

\* Lines 139-149: update() is entered and blocks in self.stream.read(CHUNK).
UpdateBegin ==
    /\ CanDispatch(pc, timeoutPending)
    /\ ticks + active < MaxTicks
    /\ timeoutPending' = FALSE
    /\ active' = active + 1
    /\ pc' = "read"
    /\ UNCHANGED <<offset, mountains, timerActive, wf_data, ret, call, bootRet,
                   ticks, triBuilds, log>>

\* Line 149: the device has CHUNK frames; read returns them.
UpdateRead ==
    /\ pc = "read"
    /\ \E buf \in DeviceBuffers : wf_data' = buf
    /\ log' = Append(log, <<"read", ticks + 1>>)
    /\ pc' = "mesh"
    /\ UNCHANGED <<offset, mountains, timerActive, timeoutPending, ret, call,
                   bootRet, ticks, active, triBuilds>>

\* Line 150: verts, faces, colors = self.mesh(offset=self.offset, waveform=wf_data)
UpdateMesh ==
    /\ pc = "mesh"
    /\ call' = [made |-> TRUE, offsetArg |-> offset, waveform |-> Given(wf_data)]
    /\ LET r == Mesh(offset, offset, Given(wf_data)) IN
        /\ ret' = r
        /\ IF r.ok
           THEN /\ triBuilds' = BuildsAfterMesh(triBuilds)
                /\ log' = Append(log, <<"mesh", ticks + 1>>)
                /\ pc' = "setMesh"
           ELSE /\ UNCHANGED <<triBuilds, log>>
                /\ pc' = "crashed"
    /\ UNCHANGED <<offset, mountains, timerActive, timeoutPending, wf_data,
                   bootRet, ticks, active>>

\* Line 151: self.mountains.setMeshData(vertexes=verts, faces=faces, faceColors=colors)
UpdateSetMeshData ==
    /\ pc = "setMesh"
    /\ mountains' = [set |-> TRUE, verts |-> ret.verts, faces |-> ret.faces,
                     colors |-> ret.colors]
    /\ log' = Append(log, <<"setMeshData", ticks + 1>>)
    /\ pc' = "decrement"
    /\ UNCHANGED <<offset, timerActive, timeoutPending, wf_data, ret, call,
                   bootRet, ticks, active, triBuilds>>

\* Line 152: the scroll step, 0.059 (thousandths)
ScrollStep == 59

\* The step added instead of subtracted.
Increment(o) == o + ScrollStep

\* Line 152: self.offset -= 0.059
Decrement(o) == o - ScrollStep

\* Line 152, then update() returns to the event loop and its locals die.
UpdateDecrement ==
    /\ pc = "decrement"
    /\ offset' = Decrement(offset)
    /\ log' = Append(log, <<"decrement", ticks + 1>>)
    /\ ticks' = ticks + 1
    /\ active' = active - 1
    /\ wf_data' = <<>>
    /\ ret' = Raised
    /\ call' = NoCall
    /\ pc' = "idle"
    /\ UNCHANGED <<mountains, timerActive, timeoutPending, bootRet, triBuilds>>

Next ==
    \/ InitMesh
    \/ Animation
    \/ TimerTimeout
    \/ UpdateBegin
    \/ UpdateRead
    \/ UpdateMesh
    \/ UpdateSetMeshData
    \/ UpdateDecrement

Spec == Init /\ [][Next]_vars

\* ------------------------------------------------------------ type check
TypeOK ==
    /\ offset \in Int
    /\ pc \in {"init", "constructed", "returned", "idle", "read", "mesh",
               "setMesh", "decrement", "crashed"}
    /\ ticks \in 0..MaxTicks
    /\ timerActive \in BOOLEAN
    /\ timeoutPending \in BOOLEAN

\* ------------------------------------------------------- claims: helpers
\* A mesh call has just returned: the one of __init__, or the one of update().
CallDone == pc \in {"constructed", "setMesh"}
TheCall == IF pc = "constructed" THEN BootCall ELSE call
TheRet == IF pc = "constructed" THEN bootRet ELSE ret

Cells == (0..(nfaces - 1)) \X (0..(nfaces - 1))
\* Position in the vertex array of the entry with index i*nfaces + j.
At(i, j) == i * nfaces + j + 1

\* The signed two's-complement reading of a byte 0..255.
Signed8(b) == IF b >= 128 THEN b - 256 ELSE b

C2_VertexLayout ==
    CallDone =>
        /\ TheRet.ok
        /\ Len(TheRet.verts) = nfaces * nfaces
        /\ \A c \in Cells :
            /\ TheRet.verts[At(c[1], c[2])].x = xpoints[c[1] + 1]
            /\ TheRet.verts[At(c[1], c[2])].y = ypoints[c[2] + 1]

C2_Witness ==
    /\ pc = "setMesh"
    /\ call.waveform.given
    /\ call.offsetArg = -2 * 59
    /\ Len(ret.verts) = 1024
    /\ ret.verts[At(3, 7)].x # ret.verts[At(7, 3)].x

\* C3: the face list has 2*(nfaces-1)^2 triangles, each of three pairwise
\* distinct indices in 0 .. nfaces^2 - 1, and the color list is as long.
C3_FaceListShape ==
    CallDone =>
        /\ nfaces >= 2
        /\ Len(TheRet.faces) = 2 * (nfaces - 1) * (nfaces - 1)
        /\ Len(TheRet.colors) = Len(TheRet.faces)
        /\ \A t \in 1..Len(TheRet.faces) :
            LET f == TheRet.faces[t] IN
            /\ Len(f) = 3
            /\ \A k \in 1..3 : f[k] \in 0..(nfaces * nfaces - 1)
            /\ f[1] # f[2] /\ f[1] # f[3] /\ f[2] # f[3]

C3_Witness ==
    /\ pc = "setMesh"
    /\ Len(ret.faces) = 1922
    /\ Len(ret.colors) = 1922
    /\ ret.faces[1922][3] = 1023

\* C4: the decoded cell (i, j) is 0.02 times the signed 8-bit value of the
\* byte at buffer position 2*(i*nfaces + j); no odd-position byte matters,
\* decoding never fails, and a silent buffer gives the zero matrix.
C4_DecodeLowBytes ==
    pc = "setMesh" =>
      LET A == AmplitudeMatrix(Given(wf_data)) IN
        /\ ret.ok
        /\ \A c \in Cells :
            /\ A[c[1]][c[2]]
                 = 2 * Signed8(wf_data[2 * (c[1] * nfaces + c[2]) + 1])
            /\ ret.verts[At(c[1], c[2])].z.amp
                 = 2 * Signed8(wf_data[2 * (c[1] * nfaces + c[2]) + 1])
        /\ \A other \in DeviceBuffers :
            (\A k \in 1..CHUNK : other[2 * k - 1] = wf_data[2 * k - 1])
                => AmplitudeMatrix(Given(other)) = A
        /\ (\A p \in 1..(2 * CHUNK) : wf_data[p] = 0)
                => \A c \in Cells : ret.verts[At(c[1], c[2])].z.amp = 0

\* A buffer whose even positions run through every byte value and whose odd
\* positions are not silent has been decoded.
C4_Witness ==
    /\ pc = "setMesh"
    /\ ret.ok
    /\ {wf_data[2 * k - 1] : k \in 1..CHUNK} = 0..255
    /\ \E k \in 1..CHUNK : wf_data[2 * k] >= 128
    /\ \E c \in Cells : ret.verts[At(c[1], c[2])].z.amp = -256

\* C5: the scroll offset starts at 0, is -0.059 * k after k completed ticks,
\* and is written only by the decrement that ends a tick, by one step down.
C5_OffsetCountsTicks ==
    /\ [](offset = (-59) * ticks)
    /\ [](pc = "init" => offset = 0)
    /\ [][offset' # offset =>
            /\ pc = "decrement"
            /\ pc' = "idle"
            /\ offset' = offset - 59
            /\ ticks' = ticks + 1]_vars

C5_Witness ==
    /\ ticks = MaxTicks
    /\ offset = (-59) * MaxTicks
    /\ pc = "idle"

\* The events of one tick, in order.
TickEvents == <<"read", "mesh", "setMeshData", "decrement">>
\* Events of the tick in progress that have happened when the thread is at pcv.
Stage(pcv) ==
    CASE pcv = "mesh" -> 1
      [] pcv = "setMesh" -> 2
      [] pcv = "decrement" -> 3
      [] OTHER -> 0

\* C6: the driver's events are totally ordered tick by tick: read, mesh from
\* that buffer and the current offset, hand-off, decrement; no event of tick
\* k+1 precedes the decrement of tick k; at most one tick is in progress.
C6_TicksSequential ==
    /\ active \in {0, 1}
    /\ active = 1 <=> pc \in {"read", "mesh", "setMesh", "decrement"}
    /\ Len(log) = 4 * ticks + Stage(pc)
    /\ \A p \in 1..Len(log) :
        log[p] = <<TickEvents[((p - 1) % 4) + 1], ((p - 1) \div 4) + 1>>
    /\ pc \in {"setMesh", "decrement"} =>
        /\ call.waveform = Given(wf_data)
        /\ call.offsetArg = offset
    /\ pc = "decrement" => mountains.verts = ret.verts

\* The timer has fired while the second tick is blocked in the audio read.
C6_Witness ==
    /\ pc = "read"
    /\ timeoutPending
    /\ ticks >= 1
    /\ active = 1

\* C7: with no waveform the amplitude matrix is the all-ones matrix with one
\* cell per grid cell, the call succeeds, and every z is 1 times the noise
\* sample taken for its cell.
C7_DefaultOnes ==
    pc # "init" =>
        /\ bootRet.ok
        /\ Len(DefaultWaveform) = nfaces * nfaces
        /\ AmplitudeMatrix(NoWaveform)
             = [i \in 0..(Len(xpoints) - 1) |-> [j \in 0..(Len(ypoints) - 1) |-> 100]]
        /\ Len(bootRet.verts) = nfaces * nfaces
        /\ \A c \in Cells :
            /\ bootRet.verts[At(c[1], c[2])].z.amp = 100
            /\ bootRet.verts[At(c[1], c[2])].z.at
                 = [nx |-> 200 * c[1], ny |-> 200 * c[2]]

C7_Witness ==
    /\ pc = "constructed"
    /\ bootRet.ok
    /\ mountains.set
    /\ mountains.verts[At(31, 31)].z.amp = 100

\* The number of mesh steps the ticks have taken so far.
MeshEvents == Cardinality({p \in 1..Len(log) : log[p][1] = "mesh"})

C9_StableAcrossCalls ==
    pc = "setMesh" =>
        /\ ret.faces = bootRet.faces
        /\ ret.colors = bootRet.colors
        /\ ret.faces = mountains.faces
        /\ mountains.colors # <<>> => ret.colors = mountains.colors
        /\ Len(ret.verts) = Len(bootRet.verts)
        /\ Len(ret.verts) = Len(mountains.verts)
        /\ \A k \in 1..Len(ret.verts) :
            /\ ret.verts[k].x = bootRet.verts[k].x
            /\ ret.verts[k].y = bootRet.verts[k].y
            /\ ret.verts[k].x = mountains.verts[k].x
            /\ ret.verts[k].y = mountains.verts[k].y
        /\ Len(ret.colors) = Len(ret.faces)
        /\ \A q \in 1..(Len(ret.colors) \div 2) :
            /\ ret.colors[2 * q - 1] = <<10, 30, 0, 35>>
            /\ ret.colors[2 * q] = <<9, 30, 0, 35>>
            /\ ret.faces[2 * q - 1][1] = ret.faces[2 * q][1]
            /\ ret.faces[2 * q - 1][3] = ret.faces[2 * q][3]

\* Two consecutive tick calls with different offsets and different heights.
C9_Witness ==
    /\ pc = "setMesh"
    /\ ticks >= 1
    /\ mountains.colors # <<>>
    /\ \E k \in 1..Len(ret.verts) : ret.verts[k].z.amp # mountains.verts[k].z.amp
    /\ ret.verts[1].z.at # mountains.verts[1].z.at

\* The grid cell a face index denotes in the vertex array.
CellOf(v) == <<v \div nfaces, v % nfaces>>
Min2(a, b) == IF a < b THEN a ELSE b
\* The lattice quad, named by its low corner, that holds triangle f.
QuadOf(f) ==
    <<Min2(CellOf(f[1])[1], Min2(CellOf(f[2])[1], CellOf(f[3])[1])),
      Min2(CellOf(f[1])[2], Min2(CellOf(f[2])[2], CellOf(f[3])[2]))>>
Corners(f) == {CellOf(f[1]), CellOf(f[2]), CellOf(f[3])}
Quads == (0..(nfaces - 2)) \X (0..(nfaces - 2))

\* C10: every triangle has three corners of one lattice quad, and every
\* quad is covered by exactly two triangles that share the diagonal from
\* (i, j) to (i+1, j+1) and together use all four corners.
C10_QuadsCovered ==
    CallDone =>
        /\ \A t \in 1..Len(TheRet.faces) :
            LET f == TheRet.faces[t]
                q == QuadOf(f)
            IN  /\ q \in Quads
                /\ Cardinality(Corners(f)) = 3
                /\ Corners(f) \subseteq {q[1], q[1] + 1} \X {q[2], q[2] + 1}
                /\ q \in Corners(f)
                /\ <<q[1] + 1, q[2] + 1>> \in Corners(f)
        /\ Len(TheRet.faces) = 2 * Cardinality(Quads)
        /\ {<<QuadOf(TheRet.faces[t]), Corners(TheRet.faces[t])>> :
                t \in 1..Len(TheRet.faces)}
             = UNION {{<<q, {q, <<q[1] + 1, q[2] + 1>>, <<q[1] + 1, q[2]>>}>>,
                       <<q, {q, <<q[1] + 1, q[2] + 1>>, <<q[1], q[2] + 1>>}>>} :
                      q \in Quads}

\* Both triangles of the last quad of the lattice are in the returned list.
C10_Witness ==
    /\ pc = "setMesh"
    /\ ticks >= 1
    /\ \E t \in 1..Len(ret.faces) :
        /\ QuadOf(ret.faces[t]) = <<nfaces - 2, nfaces - 2>>
        /\ <<nfaces - 1, nfaces - 2>> \in Corners(ret.faces[t])
    /\ \E t \in 1..Len(ret.faces) :
        /\ QuadOf(ret.faces[t]) = <<nfaces - 2, nfaces - 2>>
        /\ <<nfaces - 2, nfaces - 1>> \in Corners(ret.faces[t])

====
